---- MODULE Spec2Model ----
(***************************************************************************)
(* Model of torch/_prims/__init__.py: the primitive factory (_make_prim    *)
(* and the call wrapper _prim it builds) and the meta (validation)         *)
(* functions of the view, shape and in-place primitives.                   *)
(*                                                                         *)
(* Python sequences are 0-based; the operators below keep the 0-based      *)
(* indices of the source in their parameters (dim, start, end, ...) and    *)
(* convert at the point of indexing (At, Slice).                           *)
(*                                                                         *)
(* A meta function returns a record                                        *)
(*   [status, msg, value, shape, strides, dtype]                           *)
(* status "ok" is a normal return; any other status is the class of the    *)
(* exception that propagated out of the function.                          *)
(***************************************************************************)
EXTENDS Integers, Sequences, FiniteSets

VARIABLES
    call,      \* the call being made: the primitive and its arguments
    result,    \* what the call returned or raised ("pending" before it ran)
    prior,     \* <<>> or <<[call, result]>>: the earlier step whose result this one
               \* follows (a call whose result was fed to this one, or the meta
               \* function's result when the state holds the execution function's)
    target,    \* the tensor the in-place primitives are applied to
    trace,     \* the functions the last call through _prim invoked, in order
    invoked,   \* every function any call through _prim has invoked so far
    registry   \* the module's namespace: exported name -> the object bound to it

vars == <<call, result, prior, target, trace, invoked, registry>>

(***************************************************************************)
(* Bounds of the model.                                                    *)
(***************************************************************************)
\* largest tensor rank of the view and shape primitives' inputs
MaxRank == 3
\* largest dimension length
MaxLen == 2
\* largest rank of the broadcast_in_dim inputs and target shapes
MaxBroadcastRank == 2
\* largest number of tensors given to concatenate
MaxTensors == 2

(***************************************************************************)
(* Python sequence helpers.                                                *)
(***************************************************************************)
\* s[i] for a 0-based index i that is in range
At(s, i) == s[i + 1]

\* s[lo:hi] for 0 <= lo, hi (Python clamps both to len(s))
Slice(s, lo, hi) ==
    LET h == IF hi > Len(s) THEN Len(s) ELSE hi
    IN  IF lo >= h THEN <<>> ELSE [k \in 1..(h - lo) |-> s[lo + k]]

\* x in s
Contains(s, x) == \E k \in 1..Len(s) : s[k] = x

RECURSIVE Product(_)
Product(s) == IF Len(s) = 0 THEN 1 ELSE Head(s) * Product(Tail(s))

Reverse(s) == [k \in 1..Len(s) |-> s[Len(s) + 1 - k]]

(***************************************************************************)
(* Results of a meta function.                                             *)
(***************************************************************************)
Pending == [status |-> "pending", msg |-> "", value |-> "", shape |-> <<>>,
            strides |-> <<>>, dtype |-> ""]

\* an exception of class kind propagates
Raise(kind, msg) == [status |-> kind, msg |-> msg, value |-> "", shape |-> <<>>,
                     strides |-> <<>>, dtype |-> ""]

\* TensorMeta(a, shape=shape, strides=strides): the fields given, the rest from a
TensorMeta(a, shape, strides) ==
    [status |-> "ok", msg |-> "", value |-> "TensorMeta", shape |-> shape,
     strides |-> strides, dtype |-> a.dtype]

\* a plain return of a value that is no descriptor (None, or the argument a itself)
Return(value, a) ==
    [status |-> "ok", msg |-> "", value |-> value, shape |-> a.shape,
     strides |-> a.strides, dtype |-> a.dtype]

\* a descriptor used as the tensor-like argument of a further call
AsTensor(r) == [shape |-> r.shape, strides |-> r.strides, dtype |-> r.dtype, over |-> FALSE]

(***************************************************************************)
(* torch._prims.utils                                                      *)
(***************************************************************************)
validate_idx(shape, idx) == idx >= 0 /\ idx < Len(shape)

validate_exclusive_idx(shape, ex_idx) == ex_idx >= 0 /\ ex_idx <= Len(shape)

validate_dim_length(length) == length >= 0

validate_shape(shape) == \A k \in 1..Len(shape) : validate_dim_length(shape[k])

\* row-major strides: the last dimension has stride 1, each other one the
\* product of the lengths after it
make_contiguous_strides_for(shape) ==
    [k \in 1..Len(shape) |-> Product(Slice(shape, k, Len(shape)))]

numel(a) == Product(a.shape)

(***************************************************************************)
(* _make_prim, the two elementwise factories and the primitives built      *)
(* with them.                                                              *)
(***************************************************************************)
\* _make_prim with _prim.return_type = RETURN_TYPE.NEW whatever return_type is
_make_prim_tagged_new(name, meta_, impl_aten_, impl_nvfuser, return_type) ==
    [__name__ |-> name, meta |-> meta_, impl_aten |-> impl_aten_,
     impl_nvfuser |-> impl_nvfuser, return_type |-> "NEW"]

\* the attributes _make_prim sets on the primitive it returns (impl_aten is
\* captured by the closure); meta is the function, followed by the keyword
\* arguments partial() bound to it
_make_prim(name, meta_, impl_aten_, impl_nvfuser, return_type) ==
    [__name__ |-> name, meta |-> meta_, impl_aten |-> impl_aten_,
     impl_nvfuser |-> impl_nvfuser, return_type |-> return_type]

_make_elementwise_unary_prim(name, impl_aten_, impl_nvfuser, type_promotion) ==
    _make_prim(name, <<"_elementwise_meta", type_promotion>>, impl_aten_, impl_nvfuser, "NEW")

_make_elementwise_binary_prim(name, impl_aten_, impl_nvfuser, type_promotion) ==
    _make_prim(name, <<"_elementwise_meta", type_promotion>>, impl_aten_, impl_nvfuser, "NEW")

\* the primitives built with _make_elementwise_unary_prim, one per assignment
ElementwiseUnaryPrims ==
    {_make_elementwise_unary_prim("abs", "torch.abs", "None", "COMPLEX_TO_FLOAT"),
     _make_elementwise_unary_prim("acos", "torch.acos", "None", "DEFAULT"),
     _make_elementwise_unary_prim("acosh", "torch.acosh", "None", "DEFAULT"),
     _make_elementwise_unary_prim("asin", "torch.asin", "None", "DEFAULT"),
     _make_elementwise_unary_prim("atan", "torch.atan", "None", "DEFAULT"),
     _make_elementwise_unary_prim("cos", "torch.cos", "None", "DEFAULT"),
     _make_elementwise_unary_prim("cosh", "torch.cosh", "None", "DEFAULT"),
     _make_elementwise_unary_prim("bessel_i0e", "torch.special.i0e", "None", "DEFAULT"),
     _make_elementwise_unary_prim("bessel_i1e", "torch.special.i1e", "None", "DEFAULT"),
     _make_elementwise_unary_prim("cbrt", "_cbrt_aten", "None", "DEFAULT"),
     _make_elementwise_unary_prim("ceil", "torch.ceil", "None", "DEFAULT"),
     _make_elementwise_unary_prim("digamma", "torch.digamma", "None", "DEFAULT"),
     _make_elementwise_unary_prim("erf", "torch.erf", "None", "DEFAULT"),
     _make_elementwise_unary_prim("erf_inv", "torch.special.erfinv", "None", "DEFAULT"),
     _make_elementwise_unary_prim("erfc", "torch.special.erfc", "None", "DEFAULT"),
     _make_elementwise_unary_prim("exp", "torch.exp", "None", "DEFAULT"),
     _make_elementwise_unary_prim("expm1", "torch.special.expm1", "None", "DEFAULT"),
     _make_elementwise_unary_prim("floor", "torch.floor", "None", "DEFAULT"),
     _make_elementwise_unary_prim("is_finite", "torch.isfinite", "None", "ALWAYS_BOOL"),
     _make_elementwise_unary_prim("lgamma", "torch.lgamma", "None", "DEFAULT"),
     _make_elementwise_unary_prim("log", "torch.log", "None", "DEFAULT"),
     _make_elementwise_unary_prim("log1p", "torch.log1p", "None", "DEFAULT"),
     _make_elementwise_unary_prim("reciprocal", "torch.reciprocal", "None", "DEFAULT"),
     _make_elementwise_unary_prim("neg", "torch.neg", "None", "DEFAULT"),
     _make_elementwise_unary_prim("round", "torch.round", "None", "DEFAULT"),
     _make_elementwise_unary_prim("sign", "torch.sign", "None", "DEFAULT"),
     _make_elementwise_unary_prim("sin", "torch.sin", "None", "DEFAULT"),
     _make_elementwise_unary_prim("sinh", "torch.sinh", "None", "DEFAULT"),
     _make_elementwise_unary_prim("sqrt", "torch.sqrt", "None", "DEFAULT"),
     _make_elementwise_unary_prim("square", "torch.square", "None", "DEFAULT"),
     _make_elementwise_unary_prim("tan", "torch.tan", "None", "DEFAULT")}

\* the primitives built with _make_elementwise_binary_prim, one per assignment
ElementwiseBinaryPrims ==
    {_make_elementwise_binary_prim("add", "torch.add", "_add_nvfuser", "DEFAULT"),
     _make_elementwise_binary_prim("atan2", "torch.atan2", "None", "DEFAULT"),
     _make_elementwise_binary_prim("bitwise_and", "torch.bitwise_and", "None", "DEFAULT"),
     _make_elementwise_binary_prim("bitwise_not", "torch.bitwise_not", "None", "DEFAULT"),
     _make_elementwise_binary_prim("bitwise_or", "torch.bitwise_or", "None", "DEFAULT"),
     _make_elementwise_binary_prim("bitwise_xor", "torch.bitwise_xor", "None", "DEFAULT"),
     _make_elementwise_binary_prim("div", "_div_aten", "_div_nvfuser", "DEFAULT"),
     _make_elementwise_binary_prim("eq", "torch.eq", "None", "ALWAYS_BOOL"),
     _make_elementwise_binary_prim("ge", "torch.ge", "_ge_nvfuser", "ALWAYS_BOOL"),
     _make_elementwise_binary_prim("gt", "torch.gt", "_gt_nvfuser", "ALWAYS_BOOL"),
     _make_elementwise_binary_prim("igamma", "torch.special.gammainc", "None", "DEFAULT"),
     _make_elementwise_binary_prim("igammac", "torch.special.gammaincc", "None", "DEFAULT"),
     _make_elementwise_binary_prim("le", "torch.le", "_le_nvfuser", "ALWAYS_BOOL"),
     _make_elementwise_binary_prim("lt", "torch.lt", "_lt_nvfuser", "ALWAYS_BOOL"),
     _make_elementwise_binary_prim("max", "torch.maximum", "None", "DEFAULT"),
     _make_elementwise_binary_prim("min", "torch.minimum", "None", "DEFAULT"),
     _make_elementwise_binary_prim("mul", "torch.mul", "_mul_nvfuser", "DEFAULT"),
     _make_elementwise_binary_prim("ne", "torch.ne", "None", "ALWAYS_BOOL"),
     _make_elementwise_binary_prim("nextafter", "torch.nextafter", "None", "DEFAULT"),
     _make_elementwise_binary_prim("pow", "torch.pow", "None", "DEFAULT"),
     _make_elementwise_binary_prim("rsqrt", "torch.rsqrt", "None", "DEFAULT"),
     _make_elementwise_binary_prim("shift_left", "torch.bitwise_left_shift", "None", "DEFAULT"),
     _make_elementwise_binary_prim("shift_right_arithmetic", "torch.bitwise_right_shift", "None", "DEFAULT"),
     _make_elementwise_binary_prim("sub", "torch.sub", "None", "DEFAULT")}

ElementwisePrims == ElementwiseUnaryPrims \cup ElementwiseBinaryPrims

ElementwiseNames == {p.__name__ : p \in ElementwisePrims}

\* the primitive the module binds to the name
Elementwise(name) == CHOOSE p \in ElementwisePrims : p.__name__ = name

(***************************************************************************)
(* The module's namespace: the objects bound to the names in __all__.      *)
(***************************************************************************)
\* the primitives built with _make_prim directly, one per assignment
OtherPrims ==
    {_make_prim("broadcast_in_dim", <<"_broadcast_in_dim_meta">>, "_broadcast_in_dim_aten", "_broadcast_in_dim_nvfuser", "VIEW"),
     _make_prim("collapse_view", <<"_collapse_view_meta">>, "_collapse_view_aten", "None", "VIEW"),
     _make_prim("split_dim", <<"_split_dim_meta">>, "_split_dim_aten", "None", "VIEW"),
     _make_prim("squeeze", <<"_squeeze_meta">>, "_squeeze_aten", "None", "VIEW"),
     _make_prim("concatenate", <<"_concatenate_meta">>, "_concatenate_aten", "None", "NEW"),
     _make_prim("reshape", <<"_reshape_meta">>, "_reshape_aten", "None", "NEW"),
     _make_prim("select", <<"_select_meta">>, "_select_aten", "None", "NEW"),
     _make_prim("convert_element_type", <<"_convert_element_type_meta">>, "_convert_element_type_aten", "_convert_element_type_nvfuser", "NEW"),
     _make_prim("device_put", <<"_device_put_meta">>, "_device_put_aten", "None", "NEW"),
     _make_prim("copy_to", <<"_copy_to_meta">>, "_copy_to_aten", "None", "INPLACE"),
     _make_prim("resize", <<"_resize_meta">>, "_resize_aten", "None", "INPLACE"),
     _make_prim("sum", <<"_reduction_meta">>, "torch.sum", "None", "NEW"),
     _make_prim("prod", <<"_reduction_meta">>, "torch.prod", "None", "NEW"),
     _make_prim("amax", <<"_reduction_meta">>, "torch.amax", "None", "NEW"),
     _make_prim("amin", <<"_reduction_meta">>, "torch.amin", "None", "NEW"),
     _make_prim("all", <<"_bool_return_reduction_meta">>, "torch.all", "None", "NEW"),
     _make_prim("any", <<"_bool_return_reduction_meta">>, "torch.any", "None", "NEW")}

AllPrims == ElementwisePrims \cup OtherPrims

__all__ ==
    {"RETURN_TYPE", "abs", "acos", "acosh", "asin", "atan", "cos", "cosh",
     "bessel_i0e", "bessel_i1e", "cbrt", "ceil", "digamma", "erf", "erf_inv",
     "erfc", "exp", "expm1", "floor", "is_finite", "lgamma", "log", "log1p",
     "neg", "reciprocal", "round", "sign", "sin", "sinh", "sqrt", "square",
     "tan", "add", "atan2", "bitwise_and", "bitwise_not", "bitwise_or",
     "bitwise_xor", "div", "eq", "ge", "gt", "igamma", "igammac", "le", "lt",
     "max", "min", "mul", "ne", "nextafter", "pow", "rsqrt", "shift_left",
     "shift_right_arithmetic", "shift_right_logical", "broadcast_in_dim",
     "collapse_view", "split_dim", "squeeze", "collapse", "concatenate",
     "reshape", "select", "convert_element_type", "device_put", "copy_to",
     "resize", "all", "amax", "amin", "any", "prod", "sum"}

\* an object of the module is a record of its attributes: hasattr(o, "meta")
\* is "meta" \in DOMAIN o
\* def _not_impl(*args, **kwargs): a plain function
_not_impl == [__name__ |-> "_not_impl"]

\* def collapse(a, start, end): a plain function wrapping reshape
collapse == [__name__ |-> "collapse"]

\* class RETURN_TYPE(Enum)
RETURN_TYPE == [__name__ |-> "RETURN_TYPE", __members__ |-> {"NEW", "VIEW", "INPLACE"}]

\* the object the module binds to an exported name: every primitive is
\* assigned to the variable of the name it was built with
Module ==
    [n \in __all__ |->
        CASE n = "RETURN_TYPE" -> RETURN_TYPE
          [] n = "shift_right_logical" -> _not_impl
          [] n = "collapse" -> collapse
          [] OTHER -> CHOOSE p \in AllPrims : p.__name__ = n]

(***************************************************************************)
(* The tensors the calls are made with.                                    *)
(***************************************************************************)
ShapesOfRank(r, lens) == [1..r -> lens]

Shapes(maxrank, lens) == UNION {ShapesOfRank(r, lens) : r \in 0..maxrank}

\* the strides of the transpose of a contiguous tensor: a.T of a row-major a
TransposedStridesFor(shape) == Reverse(make_contiguous_strides_for(Reverse(shape)))

StridesFor(shape) == {make_contiguous_strides_for(shape), TransposedStridesFor(shape)}

Tensors(shapes, dtypes) ==
    UNION {{[shape |-> s, strides |-> st, dtype |-> d, over |-> FALSE] :
                st \in StridesFor(s), d \in dtypes} : s \in shapes}

\* lengths of the dimensions: 0..MaxLen (a zero length makes the tensor empty)
Lens == 0..MaxLen

ViewTensors == Tensors(Shapes(MaxRank, Lens), {"float32"})

(***************************************************************************)
(* split_dim                                                               *)
(***************************************************************************)
\* the loop "for idx in a.shape": idx takes the VALUES of a.shape (the
\* lengths), and a.shape[idx], a.stride()[idx] index with that value
RECURSIVE split_dim_loop(_, _, _, _, _, _, _)
split_dim_loop(a, dim, outer_length, inner_length, k, new_shape, new_strides) ==
    IF k > Len(a.shape) THEN TensorMeta(a, new_shape, new_strides)
    ELSE LET idx == a.shape[k]
         IN  IF idx = dim
             THEN split_dim_loop(a, dim, outer_length, inner_length, k + 1,
                      new_shape \o <<outer_length, inner_length>>,
                      new_strides \o <<At(a.strides, idx) * inner_length, At(a.strides, idx)>>)
             ELSE IF idx >= Len(a.shape)
             THEN Raise("IndexError", "tuple index out of range")
             ELSE split_dim_loop(a, dim, outer_length, inner_length, k + 1,
                      Append(new_shape, At(a.shape, idx)),
                      Append(new_strides, At(a.strides, idx)))

_split_dim_meta(a, dim, outer_length) ==
    IF ~validate_idx(a.shape, dim) THEN Raise("IndexError", "validate_idx")
    ELSE IF ~validate_dim_length(outer_length) THEN Raise("AssertionError", "validate_dim_length")
    ELSE IF outer_length = 0 THEN Raise("ZeroDivisionError", "division by zero")
    ELSE IF At(a.shape, dim) % outer_length # 0 THEN Raise("AssertionError", "inner_length")
    ELSE split_dim_loop(a, dim, outer_length, At(a.shape, dim) \div outer_length, 1, <<>>, <<>>)

(***************************************************************************)
(* collapse_view                                                           *)
(***************************************************************************)
\* the loop over range(start, end): [ok, length, stride]
RECURSIVE collapse_view_loop(_, _, _, _, _, _)
collapse_view_loop(shape, strides, idx, end, length, stride) ==
    IF idx >= end THEN [ok |-> TRUE, length |-> length, stride |-> stride]
    ELSE IF idx # end - 1 /\ At(strides, idx) # At(strides, idx + 1) * At(shape, idx + 1)
    THEN [ok |-> FALSE, length |-> length, stride |-> stride]
    ELSE collapse_view_loop(shape, strides, idx + 1, end,
                            length * At(shape, idx), stride * At(strides, idx))

_collapse_view_meta(a, start, end) ==
    IF ~validate_idx(a.shape, start) THEN Raise("IndexError", "validate_idx")
    ELSE IF ~validate_exclusive_idx(a.shape, end) THEN Raise("IndexError", "validate_exclusive_idx")
    ELSE IF ~(end > start) THEN Raise("AssertionError", "end > start")
    ELSE LET l == collapse_view_loop(a.shape, a.strides, start, end, 1, 1)
         IN  IF ~l.ok THEN Raise("AssertionError", "nested")
             ELSE TensorMeta(a,
                      Slice(a.shape, 0, start) \o <<l.length>> \o Slice(a.shape, end, Len(a.shape)),
                      Slice(a.strides, 0, start) \o <<l.stride>> \o Slice(a.shape, end, Len(a.shape)))

(***************************************************************************)
(* broadcast_in_dim                                                        *)
(***************************************************************************)
\* reduce(_greater_than_reduce, broadcast_dimensions, -1): every entry is
\* greater than the one before it (the first than -1) and less than len(shape)
RECURSIVE _greater_than_reduce(_, _, _, _)
_greater_than_reduce(acc, broadcast_dimensions, k, rank) ==
    IF k > Len(broadcast_dimensions) THEN TRUE
    ELSE LET x == broadcast_dimensions[k]
         IN  x > acc /\ x < rank /\ _greater_than_reduce(x, broadcast_dimensions, k + 1, rank)

\* the loop that builds new_strides, reading the input stride at the position
\* in the NEW shape (idx) instead of the running original_idx
RECURSIVE broadcast_strides_loop_by_new_idx(_, _, _, _, _, _)
broadcast_strides_loop_by_new_idx(a, shape, broadcast_dimensions, idx, original_idx, new_strides) ==
    IF idx >= Len(shape) THEN new_strides
    ELSE IF Contains(broadcast_dimensions, idx)
    THEN broadcast_strides_loop_by_new_idx(a, shape, broadcast_dimensions, idx + 1, original_idx + 1,
             Append(new_strides, IF idx < Len(a.strides) THEN At(a.strides, idx) ELSE 0))
    ELSE broadcast_strides_loop_by_new_idx(a, shape, broadcast_dimensions, idx + 1, original_idx,
             Append(new_strides, 0))

\* the loop over range(len(shape)) that builds new_strides
RECURSIVE broadcast_strides_loop(_, _, _, _, _, _)
broadcast_strides_loop(a, shape, broadcast_dimensions, idx, original_idx, new_strides) ==
    IF idx >= Len(shape) THEN new_strides
    ELSE IF Contains(broadcast_dimensions, idx)
    THEN broadcast_strides_loop(a, shape, broadcast_dimensions, idx + 1, original_idx + 1,
                                Append(new_strides, At(a.strides, original_idx)))
    ELSE broadcast_strides_loop(a, shape, broadcast_dimensions, idx + 1, original_idx,
                                Append(new_strides, 0))

_broadcast_in_dim_meta(a, shape, broadcast_dimensions) ==
    IF Len(a.shape) # Len(broadcast_dimensions) THEN Raise("AssertionError", "ndim")
    ELSE IF ~(Len(shape) >= Len(a.shape)) THEN Raise("AssertionError", "rank")
    ELSE IF ~_greater_than_reduce(-1, broadcast_dimensions, 1, Len(shape))
    THEN Raise("AssertionError", "ascending")
    ELSE IF \E idx \in 0..(Len(broadcast_dimensions) - 1) :
                ~(At(a.shape, idx) = 1 \/ At(a.shape, idx) = At(shape, At(broadcast_dimensions, idx)))
    THEN Raise("AssertionError", "broadcastable")
    ELSE TensorMeta(a, shape, broadcast_strides_loop(a, shape, broadcast_dimensions, 0, 0, <<>>))

(***************************************************************************)
(* The meta functions applied to drawn arguments.                          *)
(***************************************************************************)
SplitDimCalls ==
    {[prim |-> "split_dim", a |-> a, dim |-> dim, outer_length |-> ol] :
        a \in ViewTensors, dim \in (-1)..MaxRank, ol \in (-1)..MaxLen}

CollapseViewCalls ==
    {[prim |-> "collapse_view", a |-> a, start |-> s, end |-> e] :
        a \in ViewTensors, s \in (-1)..MaxRank, e \in 0..(MaxRank + 1)}

ViewCalls == SplitDimCalls \cup CollapseViewCalls

Idle == target = [shape |-> <<>>, strides |-> <<>>, dtype |-> "float32", over |-> FALSE,
                  data |-> "initial"]
        /\ trace = <<>> /\ invoked = {} /\ registry = Module

InitView == call \in ViewCalls /\ result = Pending /\ prior = <<>> /\ Idle

\* _split_dim_meta(a, dim, outer_length) on the drawn arguments
SplitDimMeta ==
    /\ call.prim = "split_dim" /\ result.status = "pending"
    /\ result' = _split_dim_meta(call.a, call.dim, call.outer_length)
    /\ UNCHANGED <<call, prior, target, trace, invoked, registry>>

\* _collapse_view_meta(a, start, end) on the drawn arguments
CollapseViewMeta ==
    /\ call.prim = "collapse_view" /\ result.status = "pending"
    /\ result' = _collapse_view_meta(call.a, call.start, call.end)
    /\ UNCHANGED <<call, prior, target, trace, invoked, registry>>

\* _split_dim_meta on the descriptor a collapse_view returned
SplitDimOfResult ==
    /\ call.prim = "collapse_view" /\ result.status = "ok" /\ prior = <<>>
    /\ \E dim \in 0..MaxRank, ol \in 0..(MaxLen * MaxLen) :
        /\ prior' = <<[call |-> call, result |-> result]>>
        /\ call' = [prim |-> "split_dim", a |-> AsTensor(result), dim |-> dim, outer_length |-> ol]
        /\ result' = _split_dim_meta(AsTensor(result), dim, ol)
    /\ UNCHANGED <<target, trace, invoked, registry>>

NextView == SplitDimMeta \/ CollapseViewMeta \/ SplitDimOfResult

SpecView == InitView /\ [][NextView]_vars

(***************************************************************************)
(* Claims about the view primitives' meta functions (SpecView).            *)
(***************************************************************************)
IsContiguous(a) == a.strides = make_contiguous_strides_for(a.shape)

PositiveLengths(a) == \A k \in 1..Len(a.shape) : a.shape[k] > 0

\* the descriptor the documentation of split_dim describes
SplitShape(shape, dim, outer_length) ==
    Slice(shape, 0, dim) \o <<outer_length, At(shape, dim) \div outer_length>>
        \o Slice(shape, dim + 1, Len(shape))

SplitStrides(a, dim, outer_length) ==
    Slice(a.strides, 0, dim)
        \o <<At(a.strides, dim) * (At(a.shape, dim) \div outer_length), At(a.strides, dim)>>
        \o Slice(a.strides, dim + 1, Len(a.strides))

\* C4: collapse_view(a, start, start + 2) of a contiguous tensor a of rank >= 2
\* (all lengths positive), then split_dim of the returned descriptor on dimension
\* start with outer_length = a.shape[start], returns a descriptor with a's shape
\* and a's strides.
C4_RoundTrip ==
    /\ (/\ call.prim = "collapse_view" /\ result.status # "pending"
        /\ IsContiguous(call.a) /\ PositiveLengths(call.a)
        /\ call.start >= 0 /\ call.end = call.start + 2 /\ call.end <= Len(call.a.shape))
       => result.status = "ok"
    /\ (/\ prior # <<>> /\ call.prim = "split_dim"
        /\ LET c == prior[1].call
           IN  /\ IsContiguous(c.a) /\ PositiveLengths(c.a)
               /\ c.end = c.start + 2
               /\ call.dim = c.start /\ call.outer_length = At(c.a.shape, c.start))
       => /\ result.status = "ok"
          /\ result.shape = prior[1].call.a.shape
          /\ result.strides = prior[1].call.a.strides

\* C5: split_dim validation of (a, dim, outer_length), dim a valid index and
\* outer_length positive, fails when a.shape[dim] is no multiple of outer_length
\* and otherwise returns the descriptor of rank rank(a)+1 with position dim of
\* the shape replaced by (outer_length, a.shape[dim]/outer_length) and of the
\* strides by (stride[dim]*inner_length, stride[dim]).
C5_SplitDim ==
    (/\ call.prim = "split_dim" /\ prior = <<>> /\ result.status # "pending"
     /\ validate_idx(call.a.shape, call.dim) /\ call.outer_length > 0)
    => IF At(call.a.shape, call.dim) % call.outer_length # 0
       THEN result.status # "ok"
       ELSE /\ result.status = "ok"
            /\ Len(result.shape) = Len(call.a.shape) + 1
            /\ result.shape = SplitShape(call.a.shape, call.dim, call.outer_length)
            /\ result.strides = SplitStrides(call.a, call.dim, call.outer_length)

(***************************************************************************)
(* broadcast_in_dim's meta function applied to drawn arguments             *)
(* (SpecBroadcast): dimension lengths 1..MaxLen.                           *)
(***************************************************************************)
BroadcastLens == 1..MaxLen

BroadcastTensors == Tensors(Shapes(MaxBroadcastRank, BroadcastLens), {"float32"})

\* broadcast_in_dim(a, shape, broadcast_dimensions) for a among the tensors
BroadcastInDimCalls(tensors) ==
    {[prim |-> "broadcast_in_dim", a |-> a, shape |-> sh, broadcast_dimensions |-> bd] :
        a \in tensors,
        sh \in Shapes(MaxBroadcastRank, BroadcastLens),
        bd \in Shapes(MaxBroadcastRank, 0..MaxBroadcastRank)}

InitBroadcast == call \in BroadcastInDimCalls(BroadcastTensors) /\ result = Pending /\ prior = <<>> /\ Idle

\* _broadcast_in_dim_meta(a, shape, broadcast_dimensions) on the drawn arguments
BroadcastInDimMeta ==
    /\ call.prim = "broadcast_in_dim" /\ result.status = "pending"
    /\ result' = _broadcast_in_dim_meta(call.a, call.shape, call.broadcast_dimensions)
    /\ UNCHANGED <<call, prior, target, trace, invoked, registry>>

NextBroadcast == BroadcastInDimMeta

SpecBroadcast == InitBroadcast /\ [][NextBroadcast]_vars

\* the precondition of broadcast_in_dim as the specification states it
BroadcastValid(a, shape, bd) ==
    /\ Len(bd) = Len(a.shape)
    /\ Len(a.shape) <= Len(shape)
    /\ \A i \in 1..Len(bd) : bd[i] >= 0 /\ bd[i] < Len(shape)
    /\ \A i \in 1..(Len(bd) - 1) : bd[i] < bd[i + 1]
    /\ \A i \in 1..Len(bd) : a.shape[i] = 1 \/ a.shape[i] = At(shape, bd[i])

\* C6: broadcast_in_dim validation passes exactly on the stated precondition,
\* and then the descriptor has the requested shape and, at every position p of
\* it, the stride a.stride[i] if p = broadcast_dimensions[i] and 0 if p is no
\* entry of broadcast_dimensions.
C6_BroadcastStrides ==
    (call.prim = "broadcast_in_dim" /\ result.status # "pending")
    => /\ result.status = "ok"
            <=> BroadcastValid(call.a, call.shape, call.broadcast_dimensions)
       /\ result.status = "ok"
            => /\ result.shape = call.shape
               /\ Len(result.strides) = Len(call.shape)
               /\ \A p \in 0..(Len(call.shape) - 1) :
                    /\ \A i \in 0..(Len(call.broadcast_dimensions) - 1) :
                          At(call.broadcast_dimensions, i) = p
                              => At(result.strides, p) = At(call.a.strides, i)
                    /\ ~Contains(call.broadcast_dimensions, p) => At(result.strides, p) = 0

\* a rank-1 tensor of length MaxLen broadcast to (1, MaxLen) through dimension 1:
\* the strides are (0, s)
C6_Witness ==
    /\ call.prim = "broadcast_in_dim" /\ result.status = "ok"
    /\ call.a.shape = <<MaxLen>> /\ call.shape = <<1, MaxLen>>
    /\ call.broadcast_dimensions = <<1>>
    /\ result.strides = <<0, call.a.strides[1]>>

(***************************************************************************)
(* concatenate and reshape                                                 *)
(***************************************************************************)
\* zip(shape, tensor.shape) stops at the shorter of the two
ZipLen(s, t) == IF Len(s) < Len(t) THEN Len(s) ELSE Len(t)

\* the inner loop of _concatenate_meta over enumerate(zip(shape, tensor.shape)):
\* [ok, concat_length]
RECURSIVE concatenate_zip_loop(_, _, _, _, _)
concatenate_zip_loop(shape, tshape, dim, idx, concat_length) ==
    IF idx >= ZipLen(shape, tshape) THEN [ok |-> TRUE, concat_length |-> concat_length]
    ELSE IF idx = dim
    THEN concatenate_zip_loop(shape, tshape, dim, idx + 1, concat_length + At(tshape, idx))
    ELSE IF At(tshape, idx) # At(shape, idx)
    THEN [ok |-> FALSE, concat_length |-> concat_length]
    ELSE concatenate_zip_loop(shape, tshape, dim, idx + 1, concat_length)

\* the outer loop "for tensor in tensors"
RECURSIVE concatenate_loop(_, _, _, _, _)
concatenate_loop(tensors, shape, dim, k, concat_length) ==
    IF k > Len(tensors) THEN [ok |-> TRUE, concat_length |-> concat_length]
    ELSE LET l == concatenate_zip_loop(shape, tensors[k].shape, dim, 0, concat_length)
         IN  IF ~l.ok THEN l
             ELSE concatenate_loop(tensors, shape, dim, k + 1, l.concat_length)

\* the tensors given are of one dtype and on one device (check_same_dtype and
\* check_same_device pass)
_concatenate_meta(tensors, dim) ==
    IF ~(Len(tensors) > 0) THEN Raise("AssertionError", "len(tensors) > 0")
    ELSE IF ~validate_idx(tensors[1].shape, dim) THEN Raise("IndexError", "validate_idx")
    ELSE LET shape == tensors[1].shape
             l == concatenate_loop(tensors, shape, dim, 1, 0)
             new_shape == [shape EXCEPT ![dim + 1] = l.concat_length]
         IN  IF ~l.ok THEN Raise("AssertionError", "length == common_length")
             ELSE TensorMeta(tensors[1], new_shape, make_contiguous_strides_for(new_shape))

\* reduce(lambda acc, x: acc * x, shape), with no initial value, raises
\* TypeError on an empty shape
_reshape_meta(a, shape) ==
    IF ~validate_shape(shape) THEN Raise("AssertionError", "validate_shape")
    ELSE IF Len(shape) = 0
    THEN Raise("TypeError", "reduce() of empty sequence with no initial value")
    ELSE IF numel(a) # Product(shape) THEN Raise("AssertionError", "numel")
    ELSE Return("None", a)

ContiguousTensors(shapes, dtypes) ==
    {[shape |-> sh, strides |-> make_contiguous_strides_for(sh), dtype |-> d, over |-> FALSE] :
        sh \in shapes, d \in dtypes}

ShapeTensors == ContiguousTensors(Shapes(MaxRank, Lens), {"float32"})

TensorLists == UNION {[1..n -> ShapeTensors] : n \in 0..MaxTensors}

ConcatenateCalls ==
    {[prim |-> "concatenate", tensors |-> ts, dim |-> dim] :
        ts \in TensorLists, dim \in (-1)..MaxRank}

ReshapeCalls ==
    {[prim |-> "reshape", a |-> a, shape |-> sh] :
        a \in ShapeTensors, sh \in Shapes(MaxRank, (-1)..MaxLen)}

InitShape == call \in (ConcatenateCalls \cup ReshapeCalls)
             /\ result = Pending /\ prior = <<>> /\ Idle

\* _concatenate_meta(tensors, dim) on the drawn arguments
ConcatenateMeta ==
    /\ call.prim = "concatenate" /\ result.status = "pending"
    /\ result' = _concatenate_meta(call.tensors, call.dim)
    /\ UNCHANGED <<call, prior, target, trace, invoked, registry>>

\* _reshape_meta(a, shape) on the drawn arguments
ReshapeMeta ==
    /\ call.prim = "reshape" /\ result.status = "pending"
    /\ result' = _reshape_meta(call.a, call.shape)
    /\ UNCHANGED <<call, prior, target, trace, invoked, registry>>

NextShape == ConcatenateMeta \/ ReshapeMeta

SpecShape == InitShape /\ [][NextShape]_vars

\* t's shape differs from the first tensor's in rank, or in a length off dim
DiffersOffDim(first, t, dim) ==
    \/ Len(t.shape) # Len(first.shape)
    \/ \E k \in 0..(Len(first.shape) - 1) : k # dim /\ At(t.shape, k) # At(first.shape, k)

RECURSIVE SumAlongDim(_, _, _)
SumAlongDim(tensors, dim, k) ==
    IF k > Len(tensors) THEN 0
    ELSE At(tensors[k].shape, dim) + SumAlongDim(tensors, dim, k + 1)

\* C7: concatenate validation of one or more tensors along a valid dim fails
\* whenever some tensor's shape differs from the first one's in rank or in a
\* length off dim; when it passes the descriptor's shape is the first tensor's
\* with the length along dim replaced by the sum of all lengths along dim.
C7_Concatenate ==
    (/\ call.prim = "concatenate" /\ result.status # "pending"
     /\ Len(call.tensors) > 0 /\ validate_idx(call.tensors[1].shape, call.dim))
    => IF \E k \in 1..Len(call.tensors) :
              DiffersOffDim(call.tensors[1], call.tensors[k], call.dim)
       THEN result.status # "ok"
       ELSE /\ result.status = "ok"
            /\ result.shape = [call.tensors[1].shape EXCEPT
                                  ![call.dim + 1] = SumAlongDim(call.tensors, call.dim, 1)]

\* C10: for a target shape of non-negative lengths (any rank, rank 0 too),
\* reshape validation passes exactly when the product of the lengths (1 for the
\* rank-0 shape) is a's element count.
C10_Reshape ==
    (call.prim = "reshape" /\ result.status # "pending" /\ validate_shape(call.shape))
    => (result.status = "ok" <=> Product(call.shape) = numel(call.a))

(***************************************************************************)
(* copy_to and resize                                                      *)
(***************************************************************************)
DTypes == {"bool", "int32", "int64", "float32", "complex64"}

\* utils.dtype_to_type: the Python number type of a dtype
dtype_to_type(dtype) ==
    CASE dtype = "bool" -> "bool"
      [] dtype \in {"int32", "int64"} -> "int"
      [] dtype = "float32" -> "float"
      [] dtype = "complex64" -> "complex"

\* the position of a number type in the order bool < int < float < complex
TypeRank(typ) ==
    CASE typ = "bool" -> 0 [] typ = "int" -> 1 [] typ = "float" -> 2 [] typ = "complex" -> 3

\* utils.get_higher_type: the higher of two number types
get_higher_type(a, b) == IF TypeRank(a) >= TypeRank(b) THEN a ELSE b

\* the size check made before the cast check
_copy_to_meta_size_first(a, b) ==
    IF numel(a) # numel(b) THEN Raise("RuntimeError", "Attempting to copy elements")
    ELSE IF dtype_to_type(a.dtype) # get_higher_type(dtype_to_type(a.dtype), dtype_to_type(b.dtype))
    THEN Raise("RuntimeError", "can't be cast safely")
    ELSE Return("a", a)

_copy_to_meta(a, b) ==
    IF dtype_to_type(a.dtype) # get_higher_type(dtype_to_type(a.dtype), dtype_to_type(b.dtype))
    THEN Raise("RuntimeError", "can't be cast safely")
    ELSE IF numel(a) # numel(b) THEN Raise("RuntimeError", "Attempting to copy elements")
    ELSE Return("a", a)

_resize_meta(a, shape) == TensorMeta(a, shape, make_contiguous_strides_for(shape))

(***************************************************************************)
(* The primitives built by _make_prim, and the call wrapper _prim.         *)
(***************************************************************************)
\* the attributes _make_prim stores on the primitive
Prims ==
    [copy_to |-> [meta |-> "_copy_to_meta", impl_nvfuser |-> "None",
                  return_type |-> "INPLACE", params |-> <<"a", "b">>],
     resize |-> [meta |-> "_resize_meta", impl_nvfuser |-> "None",
                 return_type |-> "INPLACE", params |-> <<"a", "shape">>],
     broadcast_in_dim |-> [meta |-> "_broadcast_in_dim_meta",
                           impl_nvfuser |-> "_broadcast_in_dim_nvfuser",
                           return_type |-> "VIEW",
                           params |-> <<"a", "shape", "broadcast_dimensions">>],
     reshape |-> [meta |-> "_reshape_meta", impl_nvfuser |-> "None",
                  return_type |-> "NEW", params |-> <<"a", "shape">>]]

\* the parameters of a primitive that take a tensor
TensorParams(prim) == IF prim = "copy_to" THEN {"a", "b"} ELSE {"a"}

\* the call's arguments that participate in the __torch_function__ protocol,
\* among the parameters at positions lo..hi
Participating(c, lo, hi) ==
    {i \in lo..hi : /\ i <= Len(Prims[c.prim].params)
                    /\ Prims[c.prim].params[i] \in TensorParams(c.prim)
                    /\ c[Prims[c.prim].params[i]].over}

\* has_torch_function(args): args holds the positional arguments alone, those
\* before position kwfrom; the keyword arguments are in kwargs
has_torch_function(c) == Participating(c, 1, c.kwfrom - 1) # {}

\* meta(*args, **kwargs) of the primitive called
meta(c) ==
    CASE c.prim = "copy_to" -> _copy_to_meta(c.a, c.b)
      [] c.prim = "resize" -> _resize_meta(c.a, c.shape)
      [] c.prim = "broadcast_in_dim" ->
             _broadcast_in_dim_meta(c.a, c.shape, c.broadcast_dimensions)
      [] c.prim = "reshape" -> _reshape_meta(c.a, c.shape)

\* a.copy_(b): the data of b is written to a, and a is returned
_copy_to_aten(a, b) ==
    LET t == [a EXCEPT !.data = "copied"]
    IN  [result |-> Return("a", t), target |-> t]

\* a.resize_(shape): a takes the shape, contiguous, and is returned
_resize_aten(a, shape) ==
    LET t == [a EXCEPT !.shape = shape, !.strides = make_contiguous_strides_for(shape),
                       !.data = "resized"]
    IN  [result |-> Return("a", t), target |-> t]

\* impl_aten(*args, **kwargs) of the primitive called: what it returns and
\* what it leaves of the tensor a
impl_aten(c) ==
    CASE c.prim = "copy_to" -> _copy_to_aten(c.a, c.b)
      [] c.prim = "resize" -> _resize_aten(c.a, c.shape)
      [] c.prim = "broadcast_in_dim" ->
             [result |-> [meta(c) EXCEPT !.value = "Tensor"], target |-> c.a]
      [] c.prim = "reshape" ->
             [result |-> [TensorMeta(c.a, c.shape, make_contiguous_strides_for(c.shape))
                              EXCEPT !.value = "Tensor"],
              target |-> c.a]

\* handle_torch_function(_prim, args, *args, **kwargs): the handler's result
handle_torch_function(c) ==
    [Return("handler result", c.a) EXCEPT !.shape = <<>>, !.strides = <<>>, !.dtype = ""]

\* impl_aten run before meta, whose failure then comes too late
_prim_aten_first(c) ==
    IF has_torch_function(c)
    THEN [trace |-> <<"handle_torch_function">>, result |-> handle_torch_function(c),
          target |-> c.a]
    ELSE LET r == impl_aten(c)
             m == meta(c)
         IN  [trace |-> <<"impl_aten", "meta">>,
              result |-> IF m.status # "ok" THEN m ELSE r.result,
              target |-> r.target]

\* the fused-kernel implementation preferred when the primitive has one
_prim_nvfuser(c) ==
    IF has_torch_function(c)
    THEN [trace |-> <<"handle_torch_function">>, result |-> handle_torch_function(c),
          target |-> c.a]
    ELSE IF meta(c).status # "ok"
    THEN [trace |-> <<"meta">>, result |-> meta(c), target |-> c.a]
    ELSE IF Prims[c.prim].impl_nvfuser # "None"
    THEN [trace |-> <<"meta", "impl_nvfuser">>, result |-> impl_aten(c).result,
          target |-> impl_aten(c).target]
    ELSE [trace |-> <<"meta", "impl_aten">>, result |-> impl_aten(c).result,
          target |-> impl_aten(c).target]

\* _prim(*args, **kwargs): the functions invoked in order, the value returned
\* or the exception raised, and the tensor a after the call
_prim(c) ==
    IF has_torch_function(c)
    THEN [trace |-> <<"handle_torch_function">>, result |-> handle_torch_function(c),
          target |-> c.a]
    ELSE LET m == meta(c)
         IN  IF m.status # "ok"
             THEN [trace |-> <<"meta">>, result |-> m, target |-> c.a]
             ELSE LET r == impl_aten(c)
                  IN  [trace |-> <<"meta", "impl_aten">>, result |-> r.result,
                       target |-> r.target]

\* the shapes of the tensors the primitives are called with: scalars and vectors
PrimShapes == Shapes(1, Lens)

\* the dtypes of the tensors the primitives are called with
PrimDTypes == {"int64", "float32"}

NoCall == [prim |-> "none"]

Init ==
    /\ target \in {[shape |-> sh, strides |-> make_contiguous_strides_for(sh), dtype |-> d,
                    over |-> o, data |-> "initial"] :
                       sh \in PrimShapes, d \in PrimDTypes, o \in BOOLEAN}
    /\ call = NoCall /\ result = Pending /\ prior = <<>>
    /\ trace = <<>> /\ invoked = {} /\ registry = Module

\* one call through _prim, with the tensor of the state as its argument a
Call(c) ==
    LET r == _prim(c)
    IN  /\ call' = c
        /\ result' = r.result
        /\ trace' = r.trace
        /\ target' = r.target
        /\ invoked' = invoked \cup {r.trace[i] : i \in 1..Len(r.trace)}
        /\ UNCHANGED <<prior, registry>>

\* copy_to(a, b); the parameters from position kwfrom on are given by keyword
copy_to ==
    \E b \in Tensors(PrimShapes, PrimDTypes), o \in BOOLEAN, kwfrom \in 1..3 :
        Call([prim |-> "copy_to", a |-> target, b |-> [b EXCEPT !.over = o], kwfrom |-> kwfrom])

\* resize(a, shape)
resize ==
    \E shape \in PrimShapes, kwfrom \in 1..3 :
        Call([prim |-> "resize", a |-> target, shape |-> shape, kwfrom |-> kwfrom])

\* broadcast_in_dim(a, shape, broadcast_dimensions)
broadcast_in_dim ==
    \E shape \in PrimShapes, bd \in {<<>>, <<0>>}, kwfrom \in 1..4 :
        Call([prim |-> "broadcast_in_dim", a |-> target, shape |-> shape,
              broadcast_dimensions |-> bd, kwfrom |-> kwfrom])

\* reshape(a, shape)
reshape ==
    \E shape \in PrimShapes, kwfrom \in 1..3 :
        Call([prim |-> "reshape", a |-> target, shape |-> shape, kwfrom |-> kwfrom])

Next == copy_to \/ resize \/ broadcast_in_dim \/ reshape

Spec == Init /\ [][Next]_vars

(***************************************************************************)
(* copy_to called with drawn tensors of every dtype (SpecCopy).            *)
(***************************************************************************)
\* the shapes of the tensors copy_to is called with: up to two dimensions
CopyShapes == Shapes(2, Lens)

CopyToCalls ==
    {[prim |-> "copy_to",
      a |-> [shape |-> a.shape, strides |-> a.strides, dtype |-> a.dtype, over |-> FALSE,
             data |-> "initial"],
      b |-> b, kwfrom |-> 3] :
        a \in ContiguousTensors(CopyShapes, DTypes), b \in ContiguousTensors(CopyShapes, DTypes)}

InitCopy ==
    /\ call \in CopyToCalls /\ target = call.a
    /\ result = Pending /\ prior = <<>> /\ trace = <<>> /\ invoked = {}
    /\ registry = Module

\* the call copy_to(a, b) through _prim
CopyTo ==
    /\ call.prim = "copy_to" /\ result.status = "pending"
    /\ LET r == _prim(call)
       IN  /\ result' = r.result
           /\ trace' = r.trace
           /\ target' = r.target
           /\ invoked' = invoked \cup {r.trace[i] : i \in 1..Len(r.trace)}
    /\ UNCHANGED <<call, prior, registry>>

NextCopy == CopyTo

SpecCopy == InitCopy /\ [][NextCopy]_vars

(***************************************************************************)
(* Claims about the call wrapper and the in-place primitives.              *)
(***************************************************************************)
\* some argument of the call, positional or keyword, participates in the
\* operator-overload protocol
AnyParticipates(c) == Participating(c, 1, Len(Prims[c.prim].params)) # {}

\* C1: in a call none of whose arguments participates in the overload
\* protocol, meta is the first function invoked and impl_aten runs only after
\* it; when meta raises, impl_aten is not invoked, the exception is the
\* call's outcome and the tensor a (the target of copy_to and resize) is as
\* it was before the call.
C1_MetaBeforeAten ==
    (call.prim # "none" /\ ~AnyParticipates(call))
    => /\ trace # <<>> /\ trace[1] = "meta"
       /\ \A i \in 1..Len(trace) : trace[i] = "impl_aten" => \E j \in 1..(i - 1) : trace[j] = "meta"
       /\ meta(call).status # "ok"
            => /\ ~Contains(trace, "impl_aten")
               /\ result = meta(call)
               /\ target = call.a

\* a copy_to whose validation failed: only meta ran and the target is untouched
C1_Witness ==
    /\ call.prim = "copy_to" /\ ~AnyParticipates(call)
    /\ result.status = "RuntimeError" /\ trace = <<"meta">>
    /\ target = call.a /\ target.data = "copied"

\* C2: a call with an argument that participates in the overload protocol
\* returns the handler's result, and neither meta nor impl_aten is invoked.
C2_Intercepted ==
    (call.prim # "none" /\ AnyParticipates(call))
    => /\ trace = <<"handle_torch_function">>
       /\ result = handle_torch_function(call)

\* C3: no call through _prim invokes impl_nvfuser, whether the call was
\* intercepted, failed validation or executed.
C3_NvfuserNeverInvoked ==
    /\ "impl_nvfuser" \notin invoked
    /\ ~Contains(trace, "impl_nvfuser")

\* broadcast_in_dim, which has an impl_nvfuser, executed, after calls that were
\* intercepted and calls that failed validation
C3_Witness ==
    /\ call.prim = "broadcast_in_dim" /\ Prims[call.prim].impl_nvfuser # "None"
    /\ trace = <<"meta", "impl_aten">> /\ result.status = "ok"
    /\ invoked = {"handle_torch_function", "meta", "impl_aten"}

\* the place of a dtype's category in boolean < integral < floating < complex
CategoryRank(dtype) == TypeRank(dtype_to_type(dtype))

\* C8 as stated: a cast-safety error whenever b's category is above a's, a
\* size-mismatch error whenever the element counts differ, success returning a
\* in every other case.
C8_AsStated ==
    (call.prim = "copy_to" /\ result.status # "pending")
    => /\ CategoryRank(call.b.dtype) > CategoryRank(call.a.dtype)
            => (result.status = "RuntimeError" /\ result.msg = "can't be cast safely")
       /\ numel(call.a) # numel(call.b)
            => (result.status = "RuntimeError" /\ result.msg = "Attempting to copy elements")
       /\ (CategoryRank(call.b.dtype) <= CategoryRank(call.a.dtype)
             /\ numel(call.a) = numel(call.b))
            => (result.status = "ok" /\ result.value = "a")

\* C8 (amended): a cast-safety error whenever b's category is above a's; a
\* size-mismatch error whenever the cast is safe and the element counts
\* differ; in every other case the call succeeds, copies and returns a. A
\* failed call leaves a as it was.
C8_CopyTo ==
    (call.prim = "copy_to" /\ result.status # "pending")
    => IF CategoryRank(call.b.dtype) > CategoryRank(call.a.dtype)
       THEN /\ result.status = "RuntimeError" /\ result.msg = "can't be cast safely"
            /\ target = call.a
       ELSE IF numel(call.a) # numel(call.b)
       THEN /\ result.status = "RuntimeError" /\ result.msg = "Attempting to copy elements"
            /\ target = call.a
       ELSE /\ result.status = "ok" /\ result.value = "a"
            /\ result.shape = call.a.shape /\ result.dtype = call.a.dtype
            /\ target = [call.a EXCEPT !.data = "copied"]

\* an integral source copied into a floating destination of equal element count
C8_Witness ==
    /\ call.prim = "copy_to" /\ result.status = "ok" /\ result.value = "a"
    /\ call.a.dtype = "float32" /\ call.b.dtype = "int64"
    /\ call.a.shape # call.b.shape /\ numel(call.a) = MaxLen
    /\ target.data = "copied"

\* C9: resize of a tensor with one or more elements is rejected by validation
\* and the backend resize is not invoked; on an empty tensor the call is
\* accepted and the result has the requested shape with contiguous strides.
C9_ResizeOnlyEmpty ==
    (call.prim = "resize" /\ ~AnyParticipates(call))
    => IF numel(call.a) > 0
       THEN result.status # "ok" /\ ~Contains(trace, "impl_aten")
       ELSE /\ result.status = "ok"
            /\ result.shape = call.shape
            /\ result.strides = make_contiguous_strides_for(call.shape)

(***************************************************************************)
(* div: the default backend _div_aten applied to drawn operands (SpecDiv). *)
(* An operand is a Python number or a one-element tensor; value is the     *)
(* integer it holds (a floating or complex operand holds that integer as   *)
(* a float or a complex number).                                           *)
(***************************************************************************)
\* largest absolute value of an operand of div
MaxVal == 3

\* the Python number types
NumberTypes == {"bool", "int", "float", "complex"}

\* the values a number or an element of the given type can hold
ValuesOf(typ) == IF typ = "bool" THEN 0..1 ELSE (-MaxVal)..MaxVal

DivOperands ==
    UNION ({{[kind |-> "number", dtype |-> t, value |-> v] : v \in ValuesOf(t)} :
                t \in NumberTypes}
           \cup {{[kind |-> "tensor", dtype |-> d, value |-> v] :
                     v \in ValuesOf(dtype_to_type(d))} : d \in DTypes})

\* isinstance(a, (bool, int)): a is a Python bool or int; a tensor is neither
IsPythonBoolOrInt(a) == a.kind = "number" /\ a.dtype \in {"bool", "int"}

Abs(x) == IF x < 0 THEN -x ELSE x

\* torch.div(a, b, rounding_mode="trunc"): the quotient rounded toward zero
torch_div_trunc(x, y) ==
    IF (x < 0) = (y < 0) THEN Abs(x) \div Abs(y) ELSE -(Abs(x) \div Abs(y))

_div_aten(a, b) ==
    IF IsPythonBoolOrInt(a)
    THEN [status |-> "ok", rounding_mode |-> "trunc",
          quotient |-> <<torch_div_trunc(a.value, b.value), 1>>]
    ELSE [status |-> "ok", rounding_mode |-> "true", quotient |-> <<a.value, b.value>>]

\* div(a, b) for operands a and b, b other than zero
DivCalls(operands) ==
    {[prim |-> "div", a |-> a, b |-> b] : a \in operands,
                                          b \in {x \in operands : x.value # 0}}

InitDiv == call \in DivCalls(DivOperands) /\ result = Pending /\ prior = <<>> /\ Idle

\* _div_aten(a, b) on the drawn operands
DivAten ==
    /\ call.prim = "div" /\ result.status = "pending"
    /\ result' = _div_aten(call.a, call.b)
    /\ UNCHANGED <<call, prior, target, trace, invoked, registry>>

NextDiv == DivAten

SpecDiv == InitDiv /\ [][NextDiv]_vars

\* the operand is of integral or boolean type, a number or a tensor
IsIntegralOrBool(a) ==
    IF a.kind = "number" THEN a.dtype \in {"bool", "int"}
    ELSE dtype_to_type(a.dtype) \in {"bool", "int"}

\* q is x / y rounded toward zero
IsTruncatedQuotient(q, x, y) ==
    LET r == x - q * y
    IN  Abs(r) < Abs(y) /\ (r = 0 \/ (r < 0) = (x < 0))

\* C11: the default backend of div divides truncating toward zero whenever
\* both operands are of integral or boolean type (integer tensors too), and
\* divides truly for every other pair of operands.
C11_DivTruncatesIntegers ==
    (call.prim = "div" /\ result.status # "pending")
    => IF IsIntegralOrBool(call.a) /\ IsIntegralOrBool(call.b)
       THEN /\ result.rounding_mode = "trunc"
            /\ result.quotient[2] = 1
            /\ IsTruncatedQuotient(result.quotient[1], call.a.value, call.b.value)
       ELSE /\ result.rounding_mode = "true"
            /\ result.quotient = <<call.a.value, call.b.value>>

(***************************************************************************)
(* _elementwise_meta, the meta function of every elementwise primitive.    *)
(***************************************************************************)
\* utils.check_same_shape(*args): every tensor-like argument has the same
\* shape; numbers are exempt
check_same_shape(args) ==
    \A i, j \in 1..Len(args) :
        (args[i].kind = "tensor" /\ args[j].kind = "tensor") => args[i].shape = args[j].shape

\* utils.check_same_dtype(*args): every tensor-like argument has the same dtype
check_same_dtype(args) ==
    \A i, j \in 1..Len(args) :
        (args[i].kind = "tensor" /\ args[j].kind = "tensor") => args[i].dtype = args[j].dtype

\* the loop with "0 in tensor.stride() and tensor.numel() == 0" for the test
\* after it
RECURSIVE elementwise_loop_empty(_, _, _, _, _)
elementwise_loop_empty(args, k, strides, tensor, number) ==
    IF k > Len(args)
    THEN IF tensor # <<>>
         THEN IF Contains(tensor[1].strides, 0) /\ numel(tensor[1]) = 0
              THEN TensorMeta(tensor[1], tensor[1].shape,
                              make_contiguous_strides_for(tensor[1].shape))
              ELSE TensorMeta(tensor[1], tensor[1].shape, tensor[1].strides)
         ELSE TensorMeta(number[1], number[1].shape, number[1].strides)
    ELSE LET arg == args[k]
         IN  IF arg.kind = "tensor"
             THEN LET first == IF strides = <<>> THEN <<arg.strides>> ELSE strides
                  IN  IF arg.strides # first[1]
                      THEN TensorMeta(arg, arg.shape, make_contiguous_strides_for(arg.shape))
                      ELSE elementwise_loop_empty(args, k + 1, first,
                                            IF tensor = <<>> THEN <<arg>> ELSE tensor, number)
             ELSE elementwise_loop_empty(args, k + 1, strides, tensor,
                                   IF number = <<>> THEN <<arg>> ELSE number)

\* the loop "for arg in args" from its k-th argument on, and the returns after
\* it; strides, tensor and number are <<>> for None and <<x>> once assigned
RECURSIVE elementwise_loop(_, _, _, _, _)
elementwise_loop(args, k, strides, tensor, number) ==
    IF k > Len(args)
    THEN IF tensor # <<>>
         THEN IF Contains(tensor[1].strides, 0) /\ numel(tensor[1]) > 0
              THEN TensorMeta(tensor[1], tensor[1].shape,
                              make_contiguous_strides_for(tensor[1].shape))
              ELSE TensorMeta(tensor[1], tensor[1].shape, tensor[1].strides)
         ELSE TensorMeta(number[1], number[1].shape, number[1].strides)
    ELSE LET arg == args[k]
         IN  IF arg.kind = "tensor"
             THEN LET first == IF strides = <<>> THEN <<arg.strides>> ELSE strides
                  IN  IF arg.strides # first[1]
                      THEN TensorMeta(arg, arg.shape, make_contiguous_strides_for(arg.shape))
                      ELSE elementwise_loop(args, k + 1, first,
                                            IF tensor = <<>> THEN <<arg>> ELSE tensor, number)
             ELSE elementwise_loop(args, k + 1, strides, tensor,
                                   IF number = <<>> THEN <<arg>> ELSE number)

\* _elementwise_meta(*args, type_promotion=type_promotion); the arguments are
\* all on one device, so utils.check_same_device passes
_elementwise_meta(args, type_promotion) ==
    IF ~(Len(args) > 0) THEN Raise("AssertionError", "")
    ELSE IF ~check_same_shape(args) THEN Raise("ShapeMismatchError", "")
    ELSE IF ~check_same_dtype(args) THEN Raise("DtypeMismatchError", "")
    ELSE elementwise_loop(args, 1, <<>>, <<>>, <<>>)

(***************************************************************************)
(* Elementwise calls on drawn arguments (SpecElementwise).                 *)
(***************************************************************************)
\* the strides a.expand(...) gives a dimension it broadcasts: 0 in dimension 0
ExpandedStridesFor(shape) ==
    [k \in 1..Len(shape) |-> IF k = 1 THEN 0 ELSE make_contiguous_strides_for(shape)[k]]

\* shapes of rank up to 2 whose dimensions are empty or of length MaxLen
ElementwiseShapes == Shapes(2, {0, MaxLen})

ElementwiseDTypes == {"int64", "float32", "complex64"}

ElementwiseTensors ==
    UNION {{[kind |-> "tensor", shape |-> s, strides |-> st, dtype |-> d, over |-> FALSE] :
                st \in StridesFor(s) \cup {ExpandedStridesFor(s)}, d \in ElementwiseDTypes} :
           s \in ElementwiseShapes}

\* Python numbers: as arguments they have no shape, and type(number) for dtype
ElementwiseNumbers ==
    {[kind |-> "number", shape |-> <<>>, strides |-> <<>>, dtype |-> t, over |-> FALSE] :
        t \in {"int", "float", "complex"}}

ElementwiseArgs == ElementwiseTensors \cup ElementwiseNumbers

\* *args: no, one or two positional arguments
ElementwiseArgLists == UNION {[1..n -> ElementwiseArgs] : n \in 0..2}

\* the calls of the named primitives
ElementwiseCalls(names) ==
    {[prim |-> p, args |-> args] : p \in names, args \in ElementwiseArgLists}

InitElementwise == call \in ElementwiseCalls(ElementwiseNames) /\ result = Pending /\ prior = <<>> /\ Idle

\* the primitive's meta, partial(_elementwise_meta, type_promotion=...), on
\* the drawn arguments
ElementwiseMeta ==
    /\ call.prim \in ElementwiseNames /\ result.status = "pending"
    /\ result' = _elementwise_meta(call.args, Elementwise(call.prim).meta[2])
    /\ UNCHANGED <<call, prior, target, trace, invoked, registry>>

\* the default execution functions that take one positional operand: those
\* of the unary primitives, torch.bitwise_not and torch.rsqrt; the others take two
UnaryBackends ==
    {p.impl_aten : p \in ElementwiseUnaryPrims} \cup {"torch.bitwise_not", "torch.rsqrt"}

positional_parameters(impl_aten_) == IF impl_aten_ \in UnaryBackends THEN 1 ELSE 2

\* impl_aten(*args) of an elementwise primitive on arguments whose descriptor
\* is m: a TypeError on a number of arguments the function does not take,
\* else a tensor
elementwise_aten(impl_aten_, args, m) ==
    IF Len(args) # positional_parameters(impl_aten_)
    THEN Raise("TypeError", "")
    ELSE [m EXCEPT !.value = "Tensor"]

\* the second step of _prim on arguments the meta function accepted:
\* return impl_aten(*args, **kwargs)
ElementwiseAten ==
    /\ call.prim \in ElementwiseNames /\ prior = <<>>
    /\ result.status = "ok" /\ result.value = "TensorMeta"
    /\ prior' = <<[call |-> call, result |-> result]>>
    /\ result' = elementwise_aten(Elementwise(call.prim).impl_aten, call.args, result)
    /\ UNCHANGED <<call, target, trace, invoked, registry>>

NextElementwise == ElementwiseMeta \/ ElementwiseAten

SpecElementwise == InitElementwise /\ [][NextElementwise]_vars

\* the dtype of the arguments: the tensors' common dtype, the first number's
\* type when every argument is a number
InputDType(args) ==
    IF \E k \in 1..Len(args) : args[k].kind = "tensor"
    THEN args[CHOOSE k \in 1..Len(args) : args[k].kind = "tensor"].dtype
    ELSE args[1].dtype

\* the dtype the promotion policy gives a result computed from inputs of dtype d
PromotedDType(type_promotion, d) ==
    CASE type_promotion = "ALWAYS_BOOL" -> "bool"
      [] type_promotion = "COMPLEX_TO_FLOAT" ->
             IF d = "complex64" THEN "float32" ELSE IF d = "complex" THEN "float" ELSE d
      [] OTHER -> d

\* C12: whenever an elementwise primitive's arguments pass validation, the
\* descriptor's dtype follows the primitive's promotion policy: the input
\* dtype under DEFAULT, boolean under ALWAYS_BOOL, and under COMPLEX_TO_FLOAT
\* the input dtype unless it is complex, then the matching real float dtype.
C12_DTypeFollowsPromotion ==
    (call.prim \in ElementwiseNames /\ result.status = "ok" /\ prior = <<>>)
    => result.dtype = PromotedDType(Elementwise(call.prim).meta[2], InputDType(call.args))

(***************************************************************************)
(* Claims about the module's namespace (Spec).                             *)
(***************************************************************************)
\* the return category the claims give the primitive of each name
Category(name) ==
    IF name \in {"broadcast_in_dim", "collapse_view", "split_dim", "squeeze"} THEN "VIEW"
    ELSE IF name \in {"copy_to", "resize"} THEN "INPLACE"
    ELSE "NEW"

\* the object bound to the name is a primitive: it is called by that name, has
\* a meta function, and has the one return category its family is given
IsPrimitive(name, o) ==
    /\ {"__name__", "meta", "return_type"} \subseteq DOMAIN o
    /\ o.__name__ = name
    /\ o.meta # <<>> /\ o.meta[1] # "None"
    /\ o.return_type \in {"NEW", "VIEW", "INPLACE"}
    /\ o.return_type = Category(name)

\* the exported names that are bound to no primitive: the plain function
\* collapse and the stub shift_right_logical
NotPrimitives == {"collapse", "shift_right_logical"}

\* C13 (as stated): every name in __all__ other than RETURN_TYPE is a
\* primitive with a stable name, a meta function and one return category
\* (NEW, VIEW or INPLACE as its family has it), in every state.
C13_AsStated ==
    \A name \in __all__ \ {"RETURN_TYPE"} : IsPrimitive(name, registry[name])

\* C13: every name in __all__ other than RETURN_TYPE, collapse and
\* shift_right_logical is a primitive with a stable name, a meta function
\* and one return category: NEW for the elementwise, concatenate, reshape,
\* select, conversion and reduction primitives, VIEW for broadcast_in_dim,
\* collapse_view, split_dim and squeeze, INPLACE for copy_to and resize; no
\* call changes any attribute of any exported object.
C13_Registry ==
    /\ \A name \in __all__ \ ({"RETURN_TYPE"} \cup NotPrimitives) :
           IsPrimitive(name, registry[name])
    /\ registry = Module

\* an in-place primitive has run to the end and mutated its argument
C13_Witness ==
    /\ call.prim = "copy_to" /\ result.status = "ok" /\ trace = <<"meta", "impl_aten">>
    /\ target.data = "copied"
    /\ registry["copy_to"].return_type = "INPLACE"

\* C14: every argument list the meta function of an elementwise primitive
\* accepts is accepted by its default execution function; in particular the
\* number of positional arguments accepted is the number the function takes
\* (one for torch.bitwise_not and torch.rsqrt, two for the binary functions).
C14_AtenAcceptsWhatMetaAccepts ==
    (call.prim \in ElementwiseNames /\ prior # <<>>)
    => /\ result.status = "ok"
       /\ Len(call.args) = positional_parameters(Elementwise(call.prim).impl_aten)

\* the first tensor-like argument
FirstTensor(args) ==
    args[CHOOSE k \in 1..Len(args) :
             args[k].kind = "tensor" /\ \A j \in 1..(k - 1) : args[j].kind # "tensor"]

HasTensor(args) == \E k \in 1..Len(args) : args[k].kind = "tensor"

\* some tensor-like argument's strides differ from the first tensor's
SomeStridesDiffer(args) ==
    \E k \in 1..Len(args) :
        args[k].kind = "tensor" /\ args[k].strides # FirstTensor(args).strides

\* the meta function of an elementwise primitive accepted arguments with a tensor
MetaAcceptedTensors ==
    /\ call.prim \in ElementwiseNames /\ prior = <<>>
    /\ result.status = "ok" /\ HasTensor(call.args)

\* C15 (as stated): the descriptor takes the contiguous strides of the common
\* shape if some tensor's strides differ from the first tensor's or the first
\* tensor is empty and has a zero stride, and the first tensor's strides otherwise.
C15_AsStated ==
    MetaAcceptedTensors
    => LET first == FirstTensor(call.args)
       IN  result.strides =
               IF \/ SomeStridesDiffer(call.args)
                  \/ (numel(first) = 0 /\ Contains(first.strides, 0))
               THEN make_contiguous_strides_for(first.shape)
               ELSE first.strides

\* C15: the descriptor takes the contiguous strides of the common shape if
\* some tensor's strides differ from the first tensor's or the first tensor
\* has elements and a zero stride, and the first tensor's strides otherwise.
C15_Strides ==
    MetaAcceptedTensors
    => LET first == FirstTensor(call.args)
       IN  /\ result.shape = first.shape
           /\ result.strides =
                  IF \/ SomeStridesDiffer(call.args)
                     \/ (numel(first) > 0 /\ Contains(first.strides, 0))
                  THEN make_contiguous_strides_for(first.shape)
                  ELSE first.strides

\* two tensors of the same strides, with elements and a zero stride, are
\* given contiguous strides that are not theirs
C15_Witness ==
    /\ MetaAcceptedTensors /\ Len(call.args) = 2
    /\ ~SomeStridesDiffer(call.args)
    /\ numel(FirstTensor(call.args)) > 0
    /\ Contains(FirstTensor(call.args).strides, 0)
    /\ result.strides = make_contiguous_strides_for(result.shape)
    /\ result.strides # FirstTensor(call.args).strides

(***************************************************************************)
(* Further claims about the view primitives' meta functions (SpecView).    *)
(***************************************************************************)
\* C16: whenever collapse_view(a, start, end) passes validation, the result
\* has rank rank(a) - (end - start) + 1, its dimension start has the product
\* of a.shape[start..end-1] for length, and every dimension of a outside
\* [start, end) keeps its length and its stride, in order.
C16_CollapseView ==
    (call.prim = "collapse_view" /\ result.status = "ok")
    => LET a == call.a
           n == call.end - call.start
       IN  /\ Len(result.shape) = Len(a.shape) - n + 1
           /\ Len(result.strides) = Len(a.shape) - n + 1
           /\ At(result.shape, call.start) = Product(Slice(a.shape, call.start, call.end))
           /\ \A idx \in 0..(call.start - 1) :
                  /\ At(result.shape, idx) = At(a.shape, idx)
                  /\ At(result.strides, idx) = At(a.strides, idx)
           /\ \A idx \in call.end..(Len(a.shape) - 1) :
                  /\ At(result.shape, idx - n + 1) = At(a.shape, idx)
                  /\ At(result.strides, idx - n + 1) = At(a.strides, idx)

(***************************************************************************)
(* squeeze: _squeeze_meta, then _squeeze_aten, on drawn arguments          *)
(* (SpecSqueeze).                                                          *)
(***************************************************************************)
\* most indices in the dimensions argument of squeeze
MaxDims == 2

\* the loop "for idx in dimensions" of _squeeze_meta from its k-th index on:
\* the first check that fails, "" when none does
RECURSIVE squeeze_check_loop(_, _, _)
squeeze_check_loop(shape, dimensions, k) ==
    IF k > Len(dimensions) THEN ""
    ELSE IF ~validate_idx(shape, dimensions[k]) THEN "IndexError"
    ELSE IF ~(At(shape, dimensions[k]) = 1) THEN "AssertionError"
    ELSE squeeze_check_loop(shape, dimensions, k + 1)

\* the loop "for idx in range(len(a.shape))" from idx on: s with the entries
\* at the indices in dimensions left out
RECURSIVE squeeze_keep_loop(_, _, _)
squeeze_keep_loop(s, dimensions, idx) ==
    IF idx >= Len(s) THEN <<>>
    ELSE IF Contains(dimensions, idx) THEN squeeze_keep_loop(s, dimensions, idx + 1)
    ELSE <<At(s, idx)>> \o squeeze_keep_loop(s, dimensions, idx + 1)

_squeeze_meta(a, dimensions) ==
    LET failed == squeeze_check_loop(a.shape, dimensions, 1)
    IN  IF failed # "" THEN Raise(failed, "")
        ELSE TensorMeta(a, squeeze_keep_loop(a.shape, dimensions, 0),
                        squeeze_keep_loop(a.strides, dimensions, 0))

\* s without its entry at index idx
Without(s, idx) == Slice(s, 0, idx) \o Slice(s, idx + 1, Len(s))

\* torch.squeeze(a, dim=idx): IndexError for idx outside the dimensions of a
\* (a tensor of rank 0 has the dimensions -1 and 0), a without the dimension
\* when its length is 1, and a as it is otherwise
torch_squeeze(a, idx) ==
    LET rank == IF Len(a.shape) = 0 THEN 1 ELSE Len(a.shape)
        dim == IF idx < 0 THEN idx + rank ELSE idx
    IN  IF idx < -rank \/ idx >= rank THEN Raise("IndexError", "")
        ELSE IF Len(a.shape) > 0 /\ At(a.shape, dim) = 1
        THEN [Return("Tensor", a) EXCEPT !.shape = Without(a.shape, dim),
                                         !.strides = Without(a.strides, dim)]
        ELSE Return("Tensor", a)

\* the loop "for idx in dimensions: a = torch.squeeze(a, dim=idx)" from its
\* k-th index on, and "return a"; r is a so far
RECURSIVE squeeze_aten_loop(_, _, _)
squeeze_aten_loop(r, dimensions, k) ==
    IF k > Len(dimensions) \/ r.status # "ok" THEN r
    ELSE squeeze_aten_loop(torch_squeeze(r, dimensions[k]), dimensions, k + 1)

_squeeze_aten(a, dimensions) == squeeze_aten_loop(Return("Tensor", a), dimensions, 1)

\* squeeze(a, dimensions) for a among the tensors
SqueezeCalls(tensors) ==
    {[prim |-> "squeeze", a |-> a, dimensions |-> dims] :
        a \in tensors,
        dims \in UNION {[1..n -> (-1)..MaxRank] : n \in 0..MaxDims}}

InitSqueeze == call \in SqueezeCalls(ViewTensors) /\ result = Pending /\ prior = <<>> /\ Idle

\* _squeeze_meta(a, dimensions) on the drawn arguments
SqueezeMeta ==
    /\ call.prim = "squeeze" /\ result.status = "pending"
    /\ result' = _squeeze_meta(call.a, call.dimensions)
    /\ UNCHANGED <<call, prior, target, trace, invoked, registry>>

\* the second step of _prim on arguments the meta function accepted:
\* return _squeeze_aten(a, dimensions)
SqueezeAten ==
    /\ call.prim = "squeeze" /\ prior = <<>>
    /\ result.status = "ok" /\ result.value = "TensorMeta"
    /\ prior' = <<[call |-> call, result |-> result]>>
    /\ result' = _squeeze_aten(call.a, call.dimensions)
    /\ UNCHANGED <<call, target, trace, invoked, registry>>

NextSqueeze == SqueezeMeta \/ SqueezeAten

SpecSqueeze == InitSqueeze /\ [][NextSqueeze]_vars

\* s with exactly the entries at the indices in the set dims left out
RemoveAt(s, dims) ==
    LET keep == {idx \in 0..(Len(s) - 1) : idx \notin dims}
    IN  [k \in 1..Cardinality(keep) |->
            At(s, CHOOSE idx \in keep : Cardinality({j \in keep : j <= idx}) = k)]

\* C17: for every tensor a and every dimensions (indices possibly repeated,
\* in any order) that each are in range and name a dimension of length 1,
\* _squeeze_meta passes and returns a's shape and strides with exactly the
\* positions in set(dimensions) left out, and _squeeze_aten returns a tensor
\* of that same shape.
C17_Squeeze ==
    LET dims == {call.dimensions[k] : k \in 1..Len(call.dimensions)}
    IN  (/\ call.prim = "squeeze" /\ result.status # "pending"
         /\ \A idx \in dims : validate_idx(call.a.shape, idx) /\ At(call.a.shape, idx) = 1)
        => /\ result.status = "ok"
           /\ result.shape = RemoveAt(call.a.shape, dims)
           /\ prior = <<>> => result.strides = RemoveAt(call.a.strides, dims)

====
